---- MODULE Spec2Model ----
(***************************************************************************)
(* Digital Nagrik Mitra MCP server (mcp_server.py): the two lookup tools,  *)
(* seva and yojana, the data loader they share, and the log_errors         *)
(* wrapper, as a state machine over the two JSON data files.               *)
(*                                                                         *)
(* A Python str is the sequence of its code points (integers); a literal   *)
(* is written as that sequence with its text in a comment before it.       *)
(* A record (a JSON object) is a function whose DOMAIN is its set of keys, *)
(* so that `key in d` is key \in DOMAIN d.  An Optional value (None or a   *)
(* value) is a sequence of length 0 or 1.  The fields name, category,      *)
(* description, eligibility_criteria and official_link hold a str,         *)
(* procedure and documents_required a list of str.  The fields whose type  *)
(* the handlers test, fees and benefits, hold [type, value]: type is the   *)
(* JSON type ("dict", "list" or "str"), and the value of a dict is the     *)
(* sequence of its (key, value) items in insertion order.                  *)
(***************************************************************************)
EXTENDS Integers, Sequences, FiniteSets, TLC

VARIABLES services, schemes, call, response, service_info, category_schemes

vars == <<services, schemes, call, response, service_info, category_schemes>>

\* The longest table (JSON array) the data files hold.
MaxRecords == 2

(***************************************************************************)
(* Characters: the tables of str.lower(), str.strip() and str.split()      *)
(***************************************************************************)
\* <<first, last, step, delta>>: str.lower() adds delta to the code points first,
\* first + step, ..., last.
LowerCaseRanges ==
    << <<65, 90, 1, 32>>, <<192, 214, 1, 32>>, <<216, 222, 1, 32>>, <<256, 302, 2, 1>>,
       <<306, 310, 2, 1>>, <<313, 327, 2, 1>>, <<330, 374, 2, 1>>,
       <<376, 376, 1, -121>>, <<377, 381, 2, 1>>, <<385, 385, 1, 210>>,
       <<386, 388, 2, 1>>, <<390, 390, 1, 206>>, <<391, 391, 1, 1>>,
       <<393, 394, 1, 205>>, <<395, 395, 1, 1>>, <<398, 398, 1, 79>>,
       <<399, 399, 1, 202>>, <<400, 400, 1, 203>>, <<401, 401, 1, 1>>,
       <<403, 403, 1, 205>>, <<404, 404, 1, 207>>, <<406, 406, 1, 211>>,
       <<407, 407, 1, 209>>, <<408, 408, 1, 1>>, <<412, 412, 1, 211>>,
       <<413, 413, 1, 213>>, <<415, 415, 1, 214>>, <<416, 420, 2, 1>>,
       <<422, 422, 1, 218>>, <<423, 423, 1, 1>>, <<425, 425, 1, 218>>,
       <<428, 428, 1, 1>>, <<430, 430, 1, 218>>, <<431, 431, 1, 1>>,
       <<433, 434, 1, 217>>, <<435, 437, 2, 1>>, <<439, 439, 1, 219>>,
       <<440, 440, 1, 1>>, <<444, 444, 1, 1>>, <<452, 452, 1, 2>>, <<453, 453, 1, 1>>,
       <<455, 455, 1, 2>>, <<456, 456, 1, 1>>, <<458, 458, 1, 2>>, <<459, 475, 2, 1>>,
       <<478, 494, 2, 1>>, <<497, 497, 1, 2>>, <<498, 500, 2, 1>>,
       <<502, 502, 1, -97>>, <<503, 503, 1, -56>>, <<504, 542, 2, 1>>,
       <<544, 544, 1, -130>>, <<546, 562, 2, 1>>, <<570, 570, 1, 10795>>,
       <<571, 571, 1, 1>>, <<573, 573, 1, -163>>, <<574, 574, 1, 10792>>,
       <<577, 577, 1, 1>>, <<579, 579, 1, -195>>, <<580, 580, 1, 69>>,
       <<581, 581, 1, 71>>, <<582, 590, 2, 1>>, <<880, 882, 2, 1>>, <<886, 886, 1, 1>>,
       <<895, 895, 1, 116>>, <<902, 902, 1, 38>>, <<904, 906, 1, 37>>,
       <<908, 908, 1, 64>>, <<910, 911, 1, 63>>, <<913, 929, 1, 32>>,
       <<932, 939, 1, 32>>, <<975, 975, 1, 8>>, <<984, 1006, 2, 1>>,
       <<1012, 1012, 1, -60>>, <<1015, 1015, 1, 1>>, <<1017, 1017, 1, -7>>,
       <<1018, 1018, 1, 1>>, <<1021, 1023, 1, -130>>, <<1024, 1039, 1, 80>>,
       <<1040, 1071, 1, 32>>, <<1120, 1152, 2, 1>>, <<1162, 1214, 2, 1>>,
       <<1216, 1216, 1, 15>>, <<1217, 1229, 2, 1>>, <<1232, 1326, 2, 1>>,
       <<1329, 1366, 1, 48>>, <<4256, 4293, 1, 7264>>, <<4295, 4295, 1, 7264>>,
       <<4301, 4301, 1, 7264>>, <<5024, 5103, 1, 38864>>, <<5104, 5109, 1, 8>>,
       <<7312, 7354, 1, -3008>>, <<7357, 7359, 1, -3008>>, <<7680, 7828, 2, 1>>,
       <<7838, 7838, 1, -7615>>, <<7840, 7934, 2, 1>>, <<7944, 7951, 1, -8>>,
       <<7960, 7965, 1, -8>>, <<7976, 7983, 1, -8>>, <<7992, 7999, 1, -8>>,
       <<8008, 8013, 1, -8>>, <<8025, 8031, 2, -8>>, <<8040, 8047, 1, -8>>,
       <<8072, 8079, 1, -8>>, <<8088, 8095, 1, -8>>, <<8104, 8111, 1, -8>>,
       <<8120, 8121, 1, -8>>, <<8122, 8123, 1, -74>>, <<8124, 8124, 1, -9>>,
       <<8136, 8139, 1, -86>>, <<8140, 8140, 1, -9>>, <<8152, 8153, 1, -8>>,
       <<8154, 8155, 1, -100>>, <<8168, 8169, 1, -8>>, <<8170, 8171, 1, -112>>,
       <<8172, 8172, 1, -7>>, <<8184, 8185, 1, -128>>, <<8186, 8187, 1, -126>>,
       <<8188, 8188, 1, -9>>, <<8486, 8486, 1, -7517>>, <<8490, 8490, 1, -8383>>,
       <<8491, 8491, 1, -8262>>, <<8498, 8498, 1, 28>>, <<8544, 8559, 1, 16>>,
       <<8579, 8579, 1, 1>>, <<9398, 9423, 1, 26>>, <<11264, 11311, 1, 48>>,
       <<11360, 11360, 1, 1>>, <<11362, 11362, 1, -10743>>, <<11363, 11363, 1, -3814>>,
       <<11364, 11364, 1, -10727>>, <<11367, 11371, 2, 1>>,
       <<11373, 11373, 1, -10780>>, <<11374, 11374, 1, -10749>>,
       <<11375, 11375, 1, -10783>>, <<11376, 11376, 1, -10782>>,
       <<11378, 11378, 1, 1>>, <<11381, 11381, 1, 1>>, <<11390, 11391, 1, -10815>>,
       <<11392, 11490, 2, 1>>, <<11499, 11501, 2, 1>>, <<11506, 11506, 1, 1>>,
       <<42560, 42604, 2, 1>>, <<42624, 42650, 2, 1>>, <<42786, 42798, 2, 1>>,
       <<42802, 42862, 2, 1>>, <<42873, 42875, 2, 1>>, <<42877, 42877, 1, -35332>>,
       <<42878, 42886, 2, 1>>, <<42891, 42891, 1, 1>>, <<42893, 42893, 1, -42280>>,
       <<42896, 42898, 2, 1>>, <<42902, 42920, 2, 1>>, <<42922, 42922, 1, -42308>>,
       <<42923, 42923, 1, -42319>>, <<42924, 42924, 1, -42315>>,
       <<42925, 42925, 1, -42305>>, <<42926, 42926, 1, -42308>>,
       <<42928, 42928, 1, -42258>>, <<42929, 42929, 1, -42282>>,
       <<42930, 42930, 1, -42261>>, <<42931, 42931, 1, 928>>, <<42932, 42946, 2, 1>>,
       <<42948, 42948, 1, -48>>, <<42949, 42949, 1, -42307>>,
       <<42950, 42950, 1, -35384>>, <<42951, 42953, 2, 1>>, <<42960, 42960, 1, 1>>,
       <<42966, 42968, 2, 1>>, <<42997, 42997, 1, 1>>, <<65313, 65338, 1, 32>>,
       <<66560, 66599, 1, 40>>, <<66736, 66771, 1, 40>>, <<66928, 66938, 1, 39>>,
       <<66940, 66954, 1, 39>>, <<66956, 66962, 1, 39>>, <<66964, 66965, 1, 39>>,
       <<68736, 68786, 1, 64>>, <<71840, 71871, 1, 32>>, <<93760, 93791, 1, 32>>,
       <<125184, 125217, 1, 34>> >>

\* <<first, last>>: the cased code points that are not case-ignorable.
CasedRanges ==
    << <<65, 90>>, <<97, 122>>, <<170, 170>>, <<181, 181>>, <<186, 186>>, <<192, 214>>,
       <<216, 246>>, <<248, 442>>, <<444, 447>>, <<452, 659>>, <<661, 687>>,
       <<880, 883>>, <<886, 887>>, <<891, 893>>, <<895, 895>>, <<902, 902>>,
       <<904, 906>>, <<908, 908>>, <<910, 929>>, <<931, 1013>>, <<1015, 1153>>,
       <<1162, 1327>>, <<1329, 1366>>, <<1376, 1416>>, <<4256, 4293>>, <<4295, 4295>>,
       <<4301, 4301>>, <<4304, 4346>>, <<4349, 4351>>, <<5024, 5109>>, <<5112, 5117>>,
       <<7296, 7304>>, <<7312, 7354>>, <<7357, 7359>>, <<7424, 7467>>, <<7531, 7543>>,
       <<7545, 7578>>, <<7680, 7957>>, <<7960, 7965>>, <<7968, 8005>>, <<8008, 8013>>,
       <<8016, 8023>>, <<8025, 8025>>, <<8027, 8027>>, <<8029, 8029>>, <<8031, 8061>>,
       <<8064, 8116>>, <<8118, 8124>>, <<8126, 8126>>, <<8130, 8132>>, <<8134, 8140>>,
       <<8144, 8147>>, <<8150, 8155>>, <<8160, 8172>>, <<8178, 8180>>, <<8182, 8188>>,
       <<8450, 8450>>, <<8455, 8455>>, <<8458, 8467>>, <<8469, 8469>>, <<8473, 8477>>,
       <<8484, 8484>>, <<8486, 8486>>, <<8488, 8488>>, <<8490, 8493>>, <<8495, 8500>>,
       <<8505, 8505>>, <<8508, 8511>>, <<8517, 8521>>, <<8526, 8526>>, <<8544, 8575>>,
       <<8579, 8580>>, <<9398, 9449>>, <<11264, 11387>>, <<11390, 11492>>,
       <<11499, 11502>>, <<11506, 11507>>, <<11520, 11557>>, <<11559, 11559>>,
       <<11565, 11565>>, <<42560, 42605>>, <<42624, 42651>>, <<42786, 42863>>,
       <<42865, 42887>>, <<42891, 42894>>, <<42896, 42954>>, <<42960, 42961>>,
       <<42963, 42963>>, <<42965, 42969>>, <<42997, 42998>>, <<43002, 43002>>,
       <<43824, 43866>>, <<43872, 43880>>, <<43888, 43967>>, <<64256, 64262>>,
       <<64275, 64279>>, <<65313, 65338>>, <<65345, 65370>>, <<66560, 66639>>,
       <<66736, 66771>>, <<66776, 66811>>, <<66928, 66938>>, <<66940, 66954>>,
       <<66956, 66962>>, <<66964, 66965>>, <<66967, 66977>>, <<66979, 66993>>,
       <<66995, 67001>>, <<67003, 67004>>, <<68736, 68786>>, <<68800, 68850>>,
       <<71840, 71903>>, <<93760, 93823>>, <<119808, 119892>>, <<119894, 119964>>,
       <<119966, 119967>>, <<119970, 119970>>, <<119973, 119974>>, <<119977, 119980>>,
       <<119982, 119993>>, <<119995, 119995>>, <<119997, 120003>>, <<120005, 120069>>,
       <<120071, 120074>>, <<120077, 120084>>, <<120086, 120092>>, <<120094, 120121>>,
       <<120123, 120126>>, <<120128, 120132>>, <<120134, 120134>>, <<120138, 120144>>,
       <<120146, 120485>>, <<120488, 120512>>, <<120514, 120538>>, <<120540, 120570>>,
       <<120572, 120596>>, <<120598, 120628>>, <<120630, 120654>>, <<120656, 120686>>,
       <<120688, 120712>>, <<120714, 120744>>, <<120746, 120770>>, <<120772, 120779>>,
       <<122624, 122633>>, <<122635, 122654>>, <<125184, 125251>>, <<127280, 127305>>,
       <<127312, 127337>>, <<127344, 127369>> >>

\* <<first, last>>: the case-ignorable code points.
CaseIgnorableRanges ==
    << <<39, 39>>, <<46, 46>>, <<58, 58>>, <<94, 94>>, <<96, 96>>, <<168, 168>>,
       <<173, 173>>, <<175, 175>>, <<180, 180>>, <<183, 184>>, <<688, 879>>,
       <<884, 885>>, <<890, 890>>, <<900, 901>>, <<903, 903>>, <<1155, 1161>>,
       <<1369, 1369>>, <<1375, 1375>>, <<1425, 1469>>, <<1471, 1471>>, <<1473, 1474>>,
       <<1476, 1477>>, <<1479, 1479>>, <<1524, 1524>>, <<1536, 1541>>, <<1552, 1562>>,
       <<1564, 1564>>, <<1600, 1600>>, <<1611, 1631>>, <<1648, 1648>>, <<1750, 1757>>,
       <<1759, 1768>>, <<1770, 1773>>, <<1807, 1807>>, <<1809, 1809>>, <<1840, 1866>>,
       <<1958, 1968>>, <<2027, 2037>>, <<2042, 2042>>, <<2045, 2045>>, <<2070, 2093>>,
       <<2137, 2139>>, <<2184, 2184>>, <<2192, 2193>>, <<2200, 2207>>, <<2249, 2306>>,
       <<2362, 2362>>, <<2364, 2364>>, <<2369, 2376>>, <<2381, 2381>>, <<2385, 2391>>,
       <<2402, 2403>>, <<2417, 2417>>, <<2433, 2433>>, <<2492, 2492>>, <<2497, 2500>>,
       <<2509, 2509>>, <<2530, 2531>>, <<2558, 2558>>, <<2561, 2562>>, <<2620, 2620>>,
       <<2625, 2626>>, <<2631, 2632>>, <<2635, 2637>>, <<2641, 2641>>, <<2672, 2673>>,
       <<2677, 2677>>, <<2689, 2690>>, <<2748, 2748>>, <<2753, 2757>>, <<2759, 2760>>,
       <<2765, 2765>>, <<2786, 2787>>, <<2810, 2815>>, <<2817, 2817>>, <<2876, 2876>>,
       <<2879, 2879>>, <<2881, 2884>>, <<2893, 2893>>, <<2901, 2902>>, <<2914, 2915>>,
       <<2946, 2946>>, <<3008, 3008>>, <<3021, 3021>>, <<3072, 3072>>, <<3076, 3076>>,
       <<3132, 3132>>, <<3134, 3136>>, <<3142, 3144>>, <<3146, 3149>>, <<3157, 3158>>,
       <<3170, 3171>>, <<3201, 3201>>, <<3260, 3260>>, <<3263, 3263>>, <<3270, 3270>>,
       <<3276, 3277>>, <<3298, 3299>>, <<3328, 3329>>, <<3387, 3388>>, <<3393, 3396>>,
       <<3405, 3405>>, <<3426, 3427>>, <<3457, 3457>>, <<3530, 3530>>, <<3538, 3540>>,
       <<3542, 3542>>, <<3633, 3633>>, <<3636, 3642>>, <<3654, 3662>>, <<3761, 3761>>,
       <<3764, 3772>>, <<3782, 3782>>, <<3784, 3789>>, <<3864, 3865>>, <<3893, 3893>>,
       <<3895, 3895>>, <<3897, 3897>>, <<3953, 3966>>, <<3968, 3972>>, <<3974, 3975>>,
       <<3981, 3991>>, <<3993, 4028>>, <<4038, 4038>>, <<4141, 4144>>, <<4146, 4151>>,
       <<4153, 4154>>, <<4157, 4158>>, <<4184, 4185>>, <<4190, 4192>>, <<4209, 4212>>,
       <<4226, 4226>>, <<4229, 4230>>, <<4237, 4237>>, <<4253, 4253>>, <<4348, 4348>>,
       <<4957, 4959>>, <<5906, 5908>>, <<5938, 5939>>, <<5970, 5971>>, <<6002, 6003>>,
       <<6068, 6069>>, <<6071, 6077>>, <<6086, 6086>>, <<6089, 6099>>, <<6103, 6103>>,
       <<6109, 6109>>, <<6155, 6159>>, <<6211, 6211>>, <<6277, 6278>>, <<6313, 6313>>,
       <<6432, 6434>>, <<6439, 6440>>, <<6450, 6450>>, <<6457, 6459>>, <<6679, 6680>>,
       <<6683, 6683>>, <<6742, 6742>>, <<6744, 6750>>, <<6752, 6752>>, <<6754, 6754>>,
       <<6757, 6764>>, <<6771, 6780>>, <<6783, 6783>>, <<6823, 6823>>, <<6832, 6862>>,
       <<6912, 6915>>, <<6964, 6964>>, <<6966, 6970>>, <<6972, 6972>>, <<6978, 6978>>,
       <<7019, 7027>>, <<7040, 7041>>, <<7074, 7077>>, <<7080, 7081>>, <<7083, 7085>>,
       <<7142, 7142>>, <<7144, 7145>>, <<7149, 7149>>, <<7151, 7153>>, <<7212, 7219>>,
       <<7222, 7223>>, <<7288, 7293>>, <<7376, 7378>>, <<7380, 7392>>, <<7394, 7400>>,
       <<7405, 7405>>, <<7412, 7412>>, <<7416, 7417>>, <<7468, 7530>>, <<7544, 7544>>,
       <<7579, 7679>>, <<8125, 8125>>, <<8127, 8129>>, <<8141, 8143>>, <<8157, 8159>>,
       <<8173, 8175>>, <<8189, 8190>>, <<8203, 8207>>, <<8216, 8217>>, <<8228, 8228>>,
       <<8231, 8231>>, <<8234, 8238>>, <<8288, 8292>>, <<8294, 8303>>, <<8305, 8305>>,
       <<8319, 8319>>, <<8336, 8348>>, <<8400, 8432>>, <<11388, 11389>>,
       <<11503, 11505>>, <<11631, 11631>>, <<11647, 11647>>, <<11744, 11775>>,
       <<11823, 11823>>, <<12293, 12293>>, <<12330, 12333>>, <<12337, 12341>>,
       <<12347, 12347>>, <<12441, 12446>>, <<12540, 12542>>, <<40981, 40981>>,
       <<42232, 42237>>, <<42508, 42508>>, <<42607, 42610>>, <<42612, 42621>>,
       <<42623, 42623>>, <<42652, 42655>>, <<42736, 42737>>, <<42752, 42785>>,
       <<42864, 42864>>, <<42888, 42890>>, <<42994, 42996>>, <<43000, 43001>>,
       <<43010, 43010>>, <<43014, 43014>>, <<43019, 43019>>, <<43045, 43046>>,
       <<43052, 43052>>, <<43204, 43205>>, <<43232, 43249>>, <<43263, 43263>>,
       <<43302, 43309>>, <<43335, 43345>>, <<43392, 43394>>, <<43443, 43443>>,
       <<43446, 43449>>, <<43452, 43453>>, <<43471, 43471>>, <<43493, 43494>>,
       <<43561, 43566>>, <<43569, 43570>>, <<43573, 43574>>, <<43587, 43587>>,
       <<43596, 43596>>, <<43632, 43632>>, <<43644, 43644>>, <<43696, 43696>>,
       <<43698, 43700>>, <<43703, 43704>>, <<43710, 43711>>, <<43713, 43713>>,
       <<43741, 43741>>, <<43756, 43757>>, <<43763, 43764>>, <<43766, 43766>>,
       <<43867, 43871>>, <<43881, 43883>>, <<44005, 44005>>, <<44008, 44008>>,
       <<44013, 44013>>, <<64286, 64286>>, <<64434, 64450>>, <<65024, 65039>>,
       <<65043, 65043>>, <<65056, 65071>>, <<65106, 65106>>, <<65109, 65109>>,
       <<65279, 65279>>, <<65287, 65287>>, <<65294, 65294>>, <<65306, 65306>>,
       <<65342, 65342>>, <<65344, 65344>>, <<65392, 65392>>, <<65438, 65439>>,
       <<65507, 65507>>, <<65529, 65531>>, <<66045, 66045>>, <<66272, 66272>>,
       <<66422, 66426>>, <<67456, 67461>>, <<67463, 67504>>, <<67506, 67514>>,
       <<68097, 68099>>, <<68101, 68102>>, <<68108, 68111>>, <<68152, 68154>>,
       <<68159, 68159>>, <<68325, 68326>>, <<68900, 68903>>, <<69291, 69292>>,
       <<69446, 69456>>, <<69506, 69509>>, <<69633, 69633>>, <<69688, 69702>>,
       <<69744, 69744>>, <<69747, 69748>>, <<69759, 69761>>, <<69811, 69814>>,
       <<69817, 69818>>, <<69821, 69821>>, <<69826, 69826>>, <<69837, 69837>>,
       <<69888, 69890>>, <<69927, 69931>>, <<69933, 69940>>, <<70003, 70003>>,
       <<70016, 70017>>, <<70070, 70078>>, <<70089, 70092>>, <<70095, 70095>>,
       <<70191, 70193>>, <<70196, 70196>>, <<70198, 70199>>, <<70206, 70206>>,
       <<70367, 70367>>, <<70371, 70378>>, <<70400, 70401>>, <<70459, 70460>>,
       <<70464, 70464>>, <<70502, 70508>>, <<70512, 70516>>, <<70712, 70719>>,
       <<70722, 70724>>, <<70726, 70726>>, <<70750, 70750>>, <<70835, 70840>>,
       <<70842, 70842>>, <<70847, 70848>>, <<70850, 70851>>, <<71090, 71093>>,
       <<71100, 71101>>, <<71103, 71104>>, <<71132, 71133>>, <<71219, 71226>>,
       <<71229, 71229>>, <<71231, 71232>>, <<71339, 71339>>, <<71341, 71341>>,
       <<71344, 71349>>, <<71351, 71351>>, <<71453, 71455>>, <<71458, 71461>>,
       <<71463, 71467>>, <<71727, 71735>>, <<71737, 71738>>, <<71995, 71996>>,
       <<71998, 71998>>, <<72003, 72003>>, <<72148, 72151>>, <<72154, 72155>>,
       <<72160, 72160>>, <<72193, 72202>>, <<72243, 72248>>, <<72251, 72254>>,
       <<72263, 72263>>, <<72273, 72278>>, <<72281, 72283>>, <<72330, 72342>>,
       <<72344, 72345>>, <<72752, 72758>>, <<72760, 72765>>, <<72767, 72767>>,
       <<72850, 72871>>, <<72874, 72880>>, <<72882, 72883>>, <<72885, 72886>>,
       <<73009, 73014>>, <<73018, 73018>>, <<73020, 73021>>, <<73023, 73029>>,
       <<73031, 73031>>, <<73104, 73105>>, <<73109, 73109>>, <<73111, 73111>>,
       <<73459, 73460>>, <<78896, 78904>>, <<92912, 92916>>, <<92976, 92982>>,
       <<92992, 92995>>, <<94031, 94031>>, <<94095, 94111>>, <<94176, 94177>>,
       <<94179, 94180>>, <<110576, 110579>>, <<110581, 110587>>, <<110589, 110590>>,
       <<113821, 113822>>, <<113824, 113827>>, <<118528, 118573>>, <<118576, 118598>>,
       <<119143, 119145>>, <<119155, 119170>>, <<119173, 119179>>, <<119210, 119213>>,
       <<119362, 119364>>, <<121344, 121398>>, <<121403, 121452>>, <<121461, 121461>>,
       <<121476, 121476>>, <<121499, 121503>>, <<121505, 121519>>, <<122880, 122886>>,
       <<122888, 122904>>, <<122907, 122913>>, <<122915, 122916>>, <<122918, 122922>>,
       <<123184, 123197>>, <<123566, 123566>>, <<123628, 123631>>, <<125136, 125142>>,
       <<125252, 125259>>, <<127995, 127999>>, <<917505, 917505>>, <<917536, 917631>>,
       <<917760, 917999>> >>

\* The code points str.strip() and str.split() treat as whitespace
\* (str.isspace): U+0009-000D, U+001C-0020, U+0085, U+00A0, U+1680,
\* U+2000-200A, U+2028, U+2029, U+202F, U+205F, U+3000.
Whitespace ==
    (9..13) \cup (28..32) \cup {133, 160, 5760} \cup (8192..8202)
        \cup {8232, 8233, 8239, 8287, 12288}

InRanges(c, ranges) ==
    \E r \in 1..Len(ranges) : ranges[r][1] <= c /\ c <= ranges[r][2]

\* The row of LowerCaseRanges that maps c.
LowerCaseRow(c, r) ==
    /\ LowerCaseRanges[r][1] <= c /\ c <= LowerCaseRanges[r][2]
    /\ (c - LowerCaseRanges[r][1]) % LowerCaseRanges[r][3] = 0

\* The simple lower-case mapping of one code point (below U+0080 the table
\* maps A-Z only).
char_lower(c) ==
    IF c < 128 THEN (IF 65 <= c /\ c <= 90 THEN c + 32 ELSE c)
    ELSE IF \E r \in 1..Len(LowerCaseRanges) : LowerCaseRow(c, r)
    THEN c + LowerCaseRanges[CHOOSE r \in 1..Len(LowerCaseRanges) : LowerCaseRow(c, r)][4]
    ELSE c

\* The final-sigma rule of str.lower(): the capital sigma at s[i] follows a
\* cased letter and is followed by none, case-ignorable code points skipped.
final_sigma(s, i) ==
    LET before == { j \in 1..(i - 1) : ~InRanges(s[j], CaseIgnorableRanges) }
        after  == { j \in (i + 1)..Len(s) : ~InRanges(s[j], CaseIgnorableRanges) }
        last   == CHOOSE j \in before : \A k \in before : k <= j
        next   == CHOOSE j \in after : \A k \in after : j <= k
    IN  /\ before # {} /\ InRanges(s[last], CasedRanges)
        /\ (after = {} \/ ~InRanges(s[next], CasedRanges))

\* The lower-casing of s[i]: U+0130 becomes two code points, U+03A3 the
\* final or the medial small sigma, any other code point its simple mapping.
lower_at(s, i) ==
    IF s[i] = 304 THEN <<105, 775>>
    ELSE IF s[i] = 931 THEN <<IF final_sigma(s, i) THEN 962 ELSE 963>>
    ELSE <<char_lower(s[i])>>

(***************************************************************************)
(* The str and list methods the handlers call                              *)
(***************************************************************************)
RECURSIVE str_lower_from(_, _)
str_lower_from(s, i) ==
    IF i > Len(s) THEN << >> ELSE lower_at(s, i) \o str_lower_from(s, i + 1)

\* str.lower()
str_lower(s) == str_lower_from(s, 1)

\* s.startswith(p) at offset i (1-based): p occurs in s at position i.
OccursAt(s, p, i) ==
    /\ i + Len(p) - 1 <= Len(s)
    /\ \A k \in 1..Len(p) : s[i + k - 1] = p[k]

\* p in s
Contains(s, p) == \E i \in 1..(Len(s) - Len(p) + 1) : OccursAt(s, p, i)

\* s.startswith(p)
StartsWith(s, p) == OccursAt(s, p, 1)

RECURSIVE str_replace_from(_, _, _, _)
str_replace_from(s, old, new, i) ==
    IF i > Len(s) THEN << >>
    ELSE IF OccursAt(s, old, i)
         THEN new \o str_replace_from(s, old, new, i + Len(old))
         ELSE <<s[i]>> \o str_replace_from(s, old, new, i + 1)

\* str.replace(old, new) for a non-empty old: leftmost, non-overlapping.
str_replace(s, old, new) == str_replace_from(s, old, new, 1)

RECURSIVE str_lstrip(_)
str_lstrip(s) ==
    IF Len(s) > 0 /\ s[1] \in Whitespace THEN str_lstrip(Tail(s)) ELSE s

RECURSIVE str_rstrip(_, _)
\* str.rstrip(chars): drops every trailing character that is in chars.
str_rstrip(s, chars) ==
    IF Len(s) > 0 /\ s[Len(s)] \in chars
    THEN str_rstrip(SubSeq(s, 1, Len(s) - 1), chars)
    ELSE s

\* str.strip()
str_strip(s) == str_rstrip(str_lstrip(s), Whitespace)

RECURSIVE str_split_from(_, _, _)
str_split_from(s, i, word) ==
    IF i > Len(s)
    THEN IF Len(word) > 0 THEN <<word>> ELSE << >>
    ELSE IF s[i] \in Whitespace
         THEN (IF Len(word) > 0 THEN <<word>> ELSE << >>)
              \o str_split_from(s, i + 1, << >>)
         ELSE str_split_from(s, i + 1, Append(word, s[i]))

\* str.split(): the maximal runs of non-whitespace characters.
str_split(s) == str_split_from(s, 1, << >>)

RECURSIVE str_join(_, _)
\* sep.join(parts)
str_join(sep, parts) ==
    IF Len(parts) = 0 THEN << >>
    ELSE IF Len(parts) = 1 THEN parts[1]
    ELSE parts[1] \o sep \o str_join(sep, Tail(parts))

RECURSIVE str_less(_, _)
\* a < b on str: lexicographic by code point.
str_less(a, b) ==
    IF Len(b) = 0 THEN FALSE
    ELSE IF Len(a) = 0 THEN TRUE
    ELSE IF a[1] = b[1] THEN str_less(Tail(a), Tail(b))
    ELSE a[1] < b[1]

RECURSIVE sorted(_)
\* sorted(list(set(...))): the elements of a set of str, ascending.
sorted(set) ==
    IF set = {} THEN << >>
    ELSE LET least == CHOOSE x \in set : \A y \in set \ {x} : str_less(x, y)
         IN  <<least>> \o sorted(set \ {least})

RECURSIVE int_str(_)
\* str(i) of a non-negative int, as the f-string {i} formats it.
int_str(i) ==
    IF i < 10 THEN <<48 + i>>
    ELSE int_str(i \div 10) \o <<48 + (i % 10)>>

\* d.get(key): None when the key is absent.
dict_get(d, key) == IF key \in DOMAIN d THEN <<d[key]>> ELSE << >>

\* d.get(key, default)
dict_get_default(d, key, default) == IF key \in DOMAIN d THEN d[key] ELSE default

(***************************************************************************)
(* load_data                                                               *)
(***************************************************************************)
\* A data file is [status, data]: "missing" (no such file), "unparsable" (a
\* zero-byte file, which json.load rejects) or "ok" with the JSON array in data.
MissingFile == [status |-> "missing", data |-> << >>]

UnparsableFile == [status |-> "unparsable", data |-> << >>]

OkFile(table) == [status |-> "ok", data |-> table]

\* str(e) of the json.JSONDecodeError json.load raises on a zero-byte file.
JSONDecodeErrorText == (* "Expecting value: line 1 column 1 (char 0)" *) <<69, 120, 112, 101, 99, 116, 105, 110, 103, 32, 118, 97, 108, 117, 101, 58, 32,
       108, 105, 110, 101, 32, 49, 32, 99, 111, 108, 117, 109, 110, 32, 49, 32, 40, 99,
       104, 97, 114, 32, 48, 41>>

ServicesFileName == (* "services.json" *) <<115, 101, 114, 118, 105, 99, 101, 115, 46, 106, 115, 111, 110>>

SchemesFileName == (* "schemes.json" *) <<115, 99, 104, 101, 109, 101, 115, 46, 106, 115, 111, 110>>

\* load_data(filename): the parsed table, or the McpError it raises, whose
\* str() is the ErrorData message.
load_data(file, filename) ==
    IF file.status = "missing"
    THEN [exc |-> "McpError", message |-> (* "Data file not found: " *) <<68, 97, 116, 97, 32, 102, 105, 108, 101, 32, 110, 111, 116, 32, 102, 111, 117,
       110, 100, 58, 32>> \o filename,
          data |-> << >>]
    ELSE IF file.status = "unparsable"
    THEN [exc |-> "McpError",
          message |-> (* "Invalid JSON in " *) <<73, 110, 118, 97, 108, 105, 100, 32, 74, 83, 79, 78, 32, 105, 110, 32>> \o filename \o (* ": " *) <<58, 32>> \o JSONDecodeErrorText,
          data |-> << >>]
    ELSE [exc |-> "none", message |-> << >>, data |-> file.data]

(***************************************************************************)
(* log_errors                                                              *)
(***************************************************************************)
\* The wrapper around every tool: the tool's return value, or the message
\* that replaces an exception leaving the tool.  outcome is [exc, message,
\* text]: exc is "none" when the tool returned text.
log_errors(func_name, outcome) ==
    IF outcome.exc = "none" THEN outcome.text
    ELSE IF outcome.exc = "McpError"
    THEN (* "U+274C McpError in " *) <<10060, 32, 77, 99, 112, 69, 114, 114, 111, 114, 32, 105, 110, 32>> \o func_name \o (* ": " *) <<58, 32>> \o outcome.message
    ELSE (* "U+274C An unexpected error occurred. Please try again later." *) <<10060, 32, 65, 110, 32, 117, 110, 101, 120, 112, 101, 99, 116, 101, 100, 32,
       101, 114, 114, 111, 114, 32, 111, 99, 99, 117, 114, 114, 101, 100, 46, 32, 80,
       108, 101, 97, 115, 101, 32, 116, 114, 121, 32, 97, 103, 97, 105, 110, 32, 108,
       97, 116, 101, 114, 46>>

(***************************************************************************)
(* validate                                                                *)
(***************************************************************************)
\* os.environ["MY_NUMBER"], which the module asserts to be set.
MY_NUMBER == (* "919876543210" *) <<57, 49, 57, 56, 55, 54, 53, 52, 51, 50, 49, 48>>

validate == [exc |-> "none", message |-> << >>, text |-> MY_NUMBER]

(***************************************************************************)
(* seva                                                                    *)
(***************************************************************************)
\* A faulty variant of name_matches: a substring test in place of equality.
name_matches_substring(s, service_name) ==
    Contains(str_lower(s["name"]), str_lower(service_name))

\* s['name'].lower() == service_name.lower()
name_matches(s, service_name) == str_lower(s["name"]) = str_lower(service_name)

RECURSIVE next_service(_, _, _)
\* next((s for s in services if name_matches), None) from index i on:
\* s['name'] raises KeyError at the first record scanned that has no name.
next_service(table, service_name, i) ==
    IF i > Len(table) THEN [exc |-> "none", info |-> << >>]
    ELSE IF "name" \notin DOMAIN table[i] THEN [exc |-> "KeyError", info |-> << >>]
    ELSE IF name_matches(table[i], service_name)
         THEN [exc |-> "none", info |-> <<table[i]>>]
         ELSE next_service(table, service_name, i + 1)

\* A faulty variant of service_names: the comprehension skips the first record.
service_names_skip_first(table) == [i \in 1..(Len(table) - 1) |-> table[i + 1]["name"]]

\* [s['name'] for s in services]
service_names(table) == [i \in 1..Len(table) |-> table[i]["name"]]

\* ", ".join([s['name'] for s in services]), or the KeyError of s['name'].
available_services(table) ==
    IF \E i \in 1..Len(table) : "name" \notin DOMAIN table[i]
    THEN [exc |-> "KeyError", text |-> << >>]
    ELSE [exc |-> "none", text |-> str_join((* ", " *) <<44, 32>>, service_names(table))]

\* The "not found" return of seva.
service_not_found(service_name, available) ==
    (* "U+274C Service not found: " *) <<10060, 32, 83, 101, 114, 118, 105, 99, 101, 32, 110, 111, 116, 32, 102, 111,
       117, 110, 100, 58, 32>> \o service_name
        \o (* ". Available services are: " *) <<46, 32, 65, 118, 97, 105, 108, 97, 98, 108, 101, 32, 115, 101, 114, 118, 105,
       99, 101, 115, 32, 97, 114, 101, 58, 32>> \o available \o (* "." *) <<46>>

RECURSIVE fee_lines(_)
\* for fee_type, amount in fees.items(): "- *{fee_type}:* {amount}\n"
fee_lines(items) ==
    IF Len(items) = 0 THEN << >>
    ELSE (* "- *" *) <<45, 32, 42>> \o items[1][1] \o (* ":* " *) <<58, 42, 32>> \o items[1][2] \o (* "\n" *) <<10>>
         \o fee_lines(Tail(items))

\* isinstance(value, dict) and isinstance(value, list) of a typed field.
isinstance(field, type) == field.type = type

\* The fees section: emitted when the record has fees and they are a dict,
\* empty or not.
fees_section(info) ==
    IF "fees" \in DOMAIN info /\ isinstance(info["fees"], "dict")
    THEN (* "U+1F4B0 *Fees:*\n" *) <<128176, 32, 42, 70, 101, 101, 115, 58, 42, 10>> \o fee_lines(info["fees"].value) \o (* "\n" *) <<10>>
    ELSE << >>

RECURSIVE step_lines(_, _)
\* for i, step in enumerate(procedure, 1): "{i}. {step}\n"
step_lines(procedure, i) ==
    IF i > Len(procedure) THEN << >>
    ELSE int_str(i) \o (* ". " *) <<46, 32>> \o procedure[i] \o (* "\n" *) <<10>> \o step_lines(procedure, i + 1)

\* The procedure section: its header is emitted unconditionally.
procedure_section(info) ==
    (* "U+1F4DD *Procedure:*\n" *) <<128221, 32, 42, 80, 114, 111, 99, 101, 100, 117, 114, 101, 58, 42, 10>>
        \o step_lines(dict_get_default(info, "procedure", << >>), 1)

RECURSIVE doc_lines(_)
doc_lines(docs) ==
    IF Len(docs) = 0 THEN << >>
    ELSE (* "- " *) <<45, 32>> \o docs[1] \o (* "\n" *) <<10>> \o doc_lines(Tail(docs))

\* A faulty variant of documents_section: the section is never written.
documents_section_omitted(info) == << >>

\* The documents section: only for a present, non-empty list.
documents_section(info) ==
    IF "documents_required" \in DOMAIN info /\ Len(info["documents_required"]) > 0
    THEN (* "\nU+1F4C4 *Documents Required:*\n" *) <<10, 128196, 32, 42, 68, 111, 99, 117, 109, 101, 110, 116, 115, 32, 82, 101, 113,
       117, 105, 114, 101, 100, 58, 42, 10>> \o doc_lines(info["documents_required"])
    ELSE << >>

\* The link section: only for a present, non-empty link.
link_section(info) ==
    IF "official_link" \in DOMAIN info /\ Len(info["official_link"]) > 0
    THEN (* "\nU+1F517 *Official Link:* " *) <<10, 128279, 32, 42, 79, 102, 102, 105, 99, 105, 97, 108, 32, 76, 105, 110, 107,
       58, 42, 32>> \o info["official_link"]
    ELSE << >>

\* The guide seva builds for the record it found.
service_guide(info) ==
    (* "U+1F4DC *Guide for " *) <<128220, 32, 42, 71, 117, 105, 100, 101, 32, 102, 111, 114, 32>> \o info["name"] \o (* "*\n\n" *) <<42, 10, 10>>
        \o fees_section(info)
        \o procedure_section(info)
        \o documents_section(info)
        \o link_section(info)
        \o (* "\n\nU+1F504 *Need more help?* Ask me about any step!" *) <<10, 10, 128260, 32, 42, 78, 101, 101, 100, 32, 109, 111, 114, 101, 32, 104, 101,
       108, 112, 63, 42, 32, 65, 115, 107, 32, 109, 101, 32, 97, 98, 111, 117, 116, 32,
       97, 110, 121, 32, 115, 116, 101, 112, 33>>

\* The return of the except Exception clause both tools end with.
request_error(message) ==
    (* "U+274C An error occurred while processing your request: " *) <<10060, 32, 65, 110, 32, 101, 114, 114, 111, 114, 32, 111, 99, 99, 117, 114, 114,
       101, 100, 32, 119, 104, 105, 108, 101, 32, 112, 114, 111, 99, 101, 115, 115,
       105, 110, 103, 32, 121, 111, 117, 114, 32, 114, 101, 113, 117, 101, 115, 116,
       58, 32>> \o message

\* str(KeyError('name'))
KeyErrorText(key) == (* "'" *) <<39>> \o key \o (* "'" *) <<39>>

\* The body of seva: [exc, message, text, info], info the record chosen.
\* Every exception raised inside is caught by its own except clause.
seva(file, service_name) ==
    LET loaded == load_data(file, ServicesFileName)
        found  == next_service(loaded.data, service_name, 1)
        avail  == available_services(loaded.data)
        Return(text, info) ==
            [exc |-> "none", message |-> << >>, text |-> text, info |-> info]
    IN  IF loaded.exc # "none" THEN Return(request_error(loaded.message), << >>)
        ELSE IF found.exc # "none"
        THEN Return(request_error(KeyErrorText((* "name" *) <<110, 97, 109, 101>>)), << >>)
        ELSE IF Len(found.info) = 0
        THEN IF avail.exc # "none"
             THEN Return(request_error(KeyErrorText((* "name" *) <<110, 97, 109, 101>>)), << >>)
             ELSE Return(service_not_found(service_name, avail.text), << >>)
        ELSE Return(service_guide(found.info[1]), found.info)

(***************************************************************************)
(* yojana                                                                  *)
(***************************************************************************)
\* `not x` for an Optional[str]: None or the empty string.
falsy(opt) == Len(opt) = 0 \/ Len(opt[1]) = 0

\* s.get('category', 'Uncategorized')
category_or_default(s) == dict_get_default(s, "category", (* "Uncategorized" *) <<85, 110, 99, 97, 116, 101, 103, 111, 114, 105, 122, 101, 100>>)

RECURSIVE distinct_in_order(_, _)
distinct_in_order(items, seen) ==
    IF Len(items) = 0 THEN << >>
    ELSE (IF items[1] \in seen THEN << >> ELSE <<items[1]>>)
         \o distinct_in_order(Tail(items), seen \cup {items[1]})

\* A faulty variant of all_categories: distinct, but in table order (sorted() left out).
all_categories_unsorted(table) ==
    distinct_in_order([i \in 1..Len(table) |->
                          IF "category" \in DOMAIN table[i] THEN table[i]["category"]
                          ELSE (* "Uncategorized" *) <<85, 110, 99, 97, 116, 101, 103, 111, 114, 105, 122, 101, 100>>], {})

\* sorted(list(set(s.get('category', 'Uncategorized') for s in schemes)))
all_categories(table) ==
    sorted({category_or_default(table[i]) : i \in 1..Len(table)})

RECURSIVE category_lines(_)
\* for cat in all_categories: "- {cat}\n"
category_lines(cats) ==
    IF Len(cats) = 0 THEN << >>
    ELSE (* "- " *) <<45, 32>> \o cats[1] \o (* "\n" *) <<10>> \o category_lines(Tail(cats))

\* The category listing returned when no category is asked for.
category_listing(table) ==
    (* "U+1F31F *Available Scheme Categories:*\n" *) <<127775, 32, 42, 65, 118, 97, 105, 108, 97, 98, 108, 101, 32, 83, 99, 104, 101,
       109, 101, 32, 67, 97, 116, 101, 103, 111, 114, 105, 101, 115, 58, 42, 10>>
        \o category_lines(all_categories(table))
        \o (* "\nTo see schemes in a category, use `/yojana [category_name]`." *) <<10, 84, 111, 32, 115, 101, 101, 32, 115, 99, 104, 101, 109, 101, 115, 32, 105,
       110, 32, 97, 32, 99, 97, 116, 101, 103, 111, 114, 121, 44, 32, 117, 115, 101,
       32, 96, 47, 121, 111, 106, 97, 110, 97, 32, 91, 99, 97, 116, 101, 103, 111, 114,
       121, 95, 110, 97, 109, 101, 93, 96, 46>>

\* normalize_category(cat), cat an Optional[str]
normalize_category(cat) ==
    IF falsy(cat) THEN << >>
    ELSE str_join((* " " *) <<32>>,
            str_split(str_strip(
                str_replace(str_replace(str_lower(cat[1]), (* "&" *) <<38>>, (* "and" *) <<97, 110, 100>>),
                            (* "  " *) <<32, 32>>, (* " " *) <<32>>))))

\* normalize_category(s.get('category')) == normalized_target
category_matches(s, normalized_target) ==
    normalize_category(dict_get(s, "category")) = normalized_target

RECURSIVE select_schemes(_, _)
\* [s for s in schemes if category_matches], in table order
select_schemes(table, normalized_target) ==
    IF Len(table) = 0 THEN << >>
    ELSE (IF category_matches(table[1], normalized_target)
          THEN <<table[1]>> ELSE << >>)
         \o select_schemes(Tail(table), normalized_target)

\* The "no schemes in this category" return.  The first line is not an
\* f-string in the source: the braces and the word category are literal.
no_schemes_found(category, table) ==
    (* "U+274C No schemes found in the '{category}' category.\n\n" *) <<10060, 32, 78, 111, 32, 115, 99, 104, 101, 109, 101, 115, 32, 102, 111, 117,
       110, 100, 32, 105, 110, 32, 116, 104, 101, 32, 39, 123, 99, 97, 116, 101, 103,
       111, 114, 121, 125, 39, 32, 99, 97, 116, 101, 103, 111, 114, 121, 46, 10, 10>>
        \o (* "Available categories are:\n" *) <<65, 118, 97, 105, 108, 97, 98, 108, 101, 32, 99, 97, 116, 101, 103, 111, 114,
       105, 101, 115, 32, 97, 114, 101, 58, 10>>
        \o category_lines(all_categories(table))

RECURSIVE benefit_lines(_)
benefit_lines(benefits) ==
    IF Len(benefits) = 0 THEN << >>
    ELSE (* "  U+2022 " *) <<32, 32, 8226, 32>> \o benefits[1] \o (* "\n" *) <<10>> \o benefit_lines(Tail(benefits))

\* The block of one scheme, ending with the separator of 30 dashes.
scheme_block(scheme) ==
    (* "U+1F539 *" *) <<128313, 32, 42>> \o dict_get_default(scheme, "name", (* "Unnamed Scheme" *) <<85, 110, 110, 97, 109, 101, 100, 32, 83, 99, 104, 101, 109, 101>>) \o (* "*\n\n" *) <<42, 10, 10>>
        \o (IF "description" \in DOMAIN scheme
            THEN (* "U+1F4DD *Description:* " *) <<128221, 32, 42, 68, 101, 115, 99, 114, 105, 112, 116, 105, 111, 110, 58, 42, 32>> \o scheme["description"] \o (* "\n\n" *) <<10, 10>>
            ELSE << >>)
        \o (IF "eligibility_criteria" \in DOMAIN scheme
            THEN (* "U+2705 *Eligibility Criteria:* " *) <<9989, 32, 42, 69, 108, 105, 103, 105, 98, 105, 108, 105, 116, 121, 32, 67, 114,
       105, 116, 101, 114, 105, 97, 58, 42, 32>>
                 \o scheme["eligibility_criteria"] \o (* "\n\n" *) <<10, 10>>
            ELSE << >>)
        \o (IF "benefits" \in DOMAIN scheme /\ isinstance(scheme["benefits"], "list")
            THEN (* "U+1F4A1 *Key Benefits:*\n" *) <<128161, 32, 42, 75, 101, 121, 32, 66, 101, 110, 101, 102, 105, 116, 115, 58, 42,
       10>>
                 \o benefit_lines(scheme["benefits"].value) \o (* "\n" *) <<10>>
            ELSE << >>)
        \o (IF "official_link" \in DOMAIN scheme
            THEN (* "U+1F517 *Official Link:* " *) <<128279, 32, 42, 79, 102, 102, 105, 99, 105, 97, 108, 32, 76, 105, 110, 107, 58,
       42, 32>> \o scheme["official_link"] \o (* "\n" *) <<10>>
            ELSE << >>)
        \o (* "\n------------------------------\n\n" *) <<10, 45, 45, 45, 45, 45, 45, 45, 45, 45, 45, 45, 45, 45, 45, 45, 45, 45, 45, 45,
       45, 45, 45, 45, 45, 45, 45, 45, 45, 45, 45, 10, 10>>

RECURSIVE scheme_blocks(_)
scheme_blocks(matched) ==
    IF Len(matched) = 0 THEN << >>
    ELSE scheme_block(matched[1]) \o scheme_blocks(Tail(matched))

\* response.rstrip("\n" + "-"*30 + "\n\n"): the argument is a set of
\* characters, newline and dash.
strip_separator(text) == str_rstrip(text, {10, 45})

\* The listing of the schemes of a category.
schemes_in_category(category, matched) ==
    strip_separator((* "U+1F4DA *Schemes in " *) <<128218, 32, 42, 83, 99, 104, 101, 109, 101, 115, 32, 105, 110, 32>> \o category \o (* ":*\n\n" *) <<58, 42, 10, 10>>
                    \o scheme_blocks(matched))
        \o (* "\n\n*Need more details?* Ask me about any scheme!" *) <<10, 10, 42, 78, 101, 101, 100, 32, 109, 111, 114, 101, 32, 100, 101, 116, 97,
       105, 108, 115, 63, 42, 32, 65, 115, 107, 32, 109, 101, 32, 97, 98, 111, 117,
       116, 32, 97, 110, 121, 32, 115, 99, 104, 101, 109, 101, 33>>

\* The body of yojana: [exc, message, text, matched], category an
\* Optional[str], matched the list category_schemes.
yojana(file, category) ==
    LET loaded  == load_data(file, SchemesFileName)
        matched == select_schemes(loaded.data, normalize_category(category))
        Return(text, found) ==
            [exc |-> "none", message |-> << >>, text |-> text, matched |-> found]
    IN  IF loaded.exc # "none" THEN Return(request_error(loaded.message), << >>)
        ELSE IF Len(loaded.data) = 0
        THEN Return((* "U+274C No schemes available at the moment. Please check back later." *) <<10060, 32, 78, 111, 32, 115, 99, 104, 101, 109, 101, 115, 32, 97, 118, 97, 105,
       108, 97, 98, 108, 101, 32, 97, 116, 32, 116, 104, 101, 32, 109, 111, 109, 101,
       110, 116, 46, 32, 80, 108, 101, 97, 115, 101, 32, 99, 104, 101, 99, 107, 32, 98,
       97, 99, 107, 32, 108, 97, 116, 101, 114, 46>>,
                    << >>)
        ELSE IF falsy(category) THEN Return(category_listing(loaded.data), << >>)
        ELSE IF Len(matched) = 0
        THEN Return(no_schemes_found(category[1], loaded.data), << >>)
        ELSE Return(schemes_in_category(category[1], matched), matched)

(***************************************************************************)
(* The data files and the requests the model draws from                    *)
(***************************************************************************)
\* An absent key, as the empty dict merged into a record.
NoFields == << >>

\* A typed field value.
Dict(items) == [type |-> "dict", value |-> items]

List(items) == [type |-> "list", value |-> items]

Str(text) == [type |-> "str", value |-> text]

ServiceNameFields ==
    { NoFields, "name" :> (* "Ab" *) <<65, 98>>, "name" :> (* "ab" *) <<97, 98>>, "name" :> (* "a" *) <<97>>,
      "name" :> (* "U+00C9b" *) <<201, 98>> }

\* No field; every field empty; every field filled; the fees a string (not
\* a dict); steps and link only.
ServiceBodies ==
    { NoFields,
      [fees |-> Dict(<< >>), procedure |-> << >>, documents_required |-> << >>,
       official_link |-> << >>],
      [fees |-> Dict(<< <<(* "Tatkal" *) <<84, 97, 116, 107, 97, 108>>, (* "Rs 7" *) <<82, 115, 32, 55>>>> >>),
       procedure |-> <<(* "Fill X" *) <<70, 105, 108, 108, 32, 88>>, (* "Pay Y" *) <<80, 97, 121, 32, 89>>>>,
       documents_required |-> <<(* "ID-K" *) <<73, 68, 45, 75>>>>, official_link |-> (* "https://q" *) <<104, 116, 116, 112, 115, 58, 47, 47, 113>>],
      [fees |-> Str((* "Rs 9" *) <<82, 115, 32, 57>>), procedure |-> <<(* "Fill X" *) <<70, 105, 108, 108, 32, 88>>>>],
      [procedure |-> <<(* "Fill form" *) <<70, 105, 108, 108, 32, 102, 111, 114, 109>>, (* "Submit docs" *) <<83, 117, 98, 109, 105, 116, 32, 100, 111, 99, 115>>>>, official_link |-> (* "https://x" *) <<104, 116, 116, 112, 115, 58, 47, 47, 120>>] }

ServiceRecords == { n @@ b : n \in ServiceNameFields, b \in ServiceBodies }

SchemeCategoryFields ==
    { NoFields, "category" :> (* "a" *) <<97>>, "category" :> (* "B" *) <<66>>, "category" :> (* "a  &" *) <<97, 32, 32, 38>>,
      "category" :> (* "U+0915U+0943U+0937U+093F" *) <<2325, 2371, 2359, 2367>> }

\* No field; every field filled; a description ending in a dash; the
\* benefits a string (not a list).
SchemeBodies ==
    { NoFields,
      [name |-> (* "PM-K" *) <<80, 77, 45, 75>>, description |-> (* "Wx" *) <<87, 120>>, eligibility_criteria |-> (* "V9" *) <<86, 57>>,
       benefits |-> List(<<(* "G1" *) <<71, 49>>, (* "H2" *) <<72, 50>>>>), official_link |-> (* "https://z" *) <<104, 116, 116, 112, 115, 58, 47, 47, 122>>],
      [name |-> (* "Jan" *) <<74, 97, 110>>, description |-> (* "Q7-" *) <<81, 55, 45>>],
      [name |-> (* "Jan" *) <<74, 97, 110>>, benefits |-> Str((* "G1" *) <<71, 49>>)] }

SchemeRecords == { c @@ b : c \in SchemeCategoryFields, b \in SchemeBodies }

\* The JSON arrays of at most MaxRecords records.
Tables(records) == UNION { [1..n -> records] : n \in 0..MaxRecords }

Files(records) ==
    {MissingFile, UnparsableFile} \cup { OkFile(t) : t \in Tables(records) }

DefaultServices ==
    OkFile(<< [name |-> (* "Ab" *) <<65, 98>>, procedure |-> <<(* "Fill form" *) <<70, 105, 108, 108, 32, 102, 111, 114, 109>>>>] >>)

DefaultSchemes ==
    OkFile(<< [category |-> (* "a" *) <<97>>, name |-> (* "Jan" *) <<74, 97, 110>>, description |-> (* "Wx" *) <<87, 120>>] >>)

\* The data directory: one file varies while the other is a fixed table (each
\* tool reads one file only).
DataDirs ==
    { [services |-> f, schemes |-> DefaultSchemes] : f \in Files(ServiceRecords) }
    \cup
    { [services |-> DefaultServices, schemes |-> f] : f \in Files(SchemeRecords) }

\* service_name arguments: exact, other casing, substring, superstring,
\* none, and a capital outside ASCII.
ServiceQueries == { (* "ab" *) <<97, 98>>, (* "AB" *) <<65, 66>>, (* "a" *) <<97>>, (* "abc" *) <<97, 98, 99>>, (* "Zz" *) <<90, 122>>, (* "U+00E9B" *) <<233, 66>> }

\* category arguments: None, "", and strings, one ending in U+00A0.
CategoryQueries ==
    { << >>, << << >> >>, << (* "a" *) <<97>> >>, << (* "A " *) <<65, 32>> >>, << (* "a &" *) <<97, 32, 38>> >>, << (* "Zz" *) <<90, 122>> >>, << (* " " *) <<32>> >>,
      << (* "bU+00A0" *) <<98, 160>> >> }

None == << >>

(***************************************************************************)
(* The server                                                              *)
(***************************************************************************)
Idle == [op |-> "idle", arg |-> None]

Init ==
    /\ \E d \in DataDirs : services = d.services /\ schemes = d.schemes
    /\ call = Idle
    /\ response = << >>
    /\ service_info = None
    /\ category_schemes = << >>

\* A seva(service_name) call, run to its return through log_errors.
Seva(service_name) ==
    LET outcome == seva(services, service_name)
    IN  /\ call.op = "idle"
        /\ call' = [op |-> "seva", arg |-> <<service_name>>]
        /\ response' = log_errors((* "seva" *) <<115, 101, 118, 97>>, outcome)
        /\ service_info' = outcome.info
        /\ UNCHANGED <<services, schemes, category_schemes>>

\* A yojana(category) call, run to its return through log_errors.
Yojana(category) ==
    LET outcome == yojana(schemes, category)
    IN  /\ call.op = "idle"
        /\ call' = [op |-> "yojana", arg |-> category]
        /\ response' = log_errors((* "yojana" *) <<121, 111, 106, 97, 110, 97>>, outcome)
        /\ category_schemes' = outcome.matched
        /\ UNCHANGED <<services, schemes, service_info>>

\* A validate() call.
Validate ==
    /\ call.op = "idle"
    /\ call' = [op |-> "validate", arg |-> None]
    /\ response' = log_errors((* "validate" *) <<118, 97, 108, 105, 100, 97, 116, 101>>, validate)
    /\ UNCHANGED <<services, schemes, service_info, category_schemes>>

\* The response goes back to the caller; nothing of the call is kept.
Reply ==
    /\ call.op # "idle"
    /\ call' = Idle
    /\ response' = << >>
    /\ service_info' = None
    /\ category_schemes' = << >>
    /\ UNCHANGED <<services, schemes>>

Next ==
    \/ \E service_name \in ServiceQueries : Seva(service_name)
    \/ \E category \in CategoryQueries : Yojana(category)
    \/ Validate
    \/ Reply

Spec == Init /\ [][Next]_vars

(***************************************************************************)
(* Vocabulary of the properties                                            *)
(***************************************************************************)
EndsWith(s, p) == Len(p) <= Len(s) /\ OccursAt(s, p, Len(s) - Len(p) + 1)

\* Equality of two strings up to letter case: their lower-cased forms have
\* the same length and the same code point at every position.
EqIgnoreCase(a, b) ==
    LET la == str_lower(a)
        lb == str_lower(b)
    IN  Len(la) = Len(lb) /\ \A i \in 1..Len(la) : la[i] = lb[i]

HasName(r) == "name" \in DOMAIN r

AllNamed(table) == \A i \in 1..Len(table) : HasName(table[i])

\* The positions of the records whose name equals q up to letter case.
MatchingIndexes(table, q) ==
    { i \in 1..Len(table) : HasName(table[i]) /\ EqIgnoreCase(table[i]["name"], q) }

Least(indexes) == CHOOSE i \in indexes : \A j \in indexes : i <= j

GuidePrefix == (* "U+1F4DC *Guide for " *) <<128220, 32, 42, 71, 117, 105, 100, 101, 32, 102, 111, 114, 32>>

NotFoundPrefix == (* "U+274C Service not found: " *) <<10060, 32, 83, 101, 114, 118, 105, 99, 101, 32, 110, 111, 116, 32, 102, 111,
       117, 110, 100, 58, 32>>

NoMatchPrefix == (* "U+274C No schemes found" *) <<10060, 32, 78, 111, 32, 115, 99, 104, 101, 109, 101, 115, 32, 102, 111, 117,
       110, 100>>

ListingHeader == (* "U+1F31F *Available Scheme Categories:*\n" *) <<127775, 32, 42, 65, 118, 97, 105, 108, 97, 98, 108, 101, 32, 83, 99, 104, 101,
       109, 101, 32, 67, 97, 116, 101, 103, 111, 114, 105, 101, 115, 58, 42, 10>>

UsageHint == (* "\nTo see schemes in a category, use `/yojana [category_name]`." *) <<10, 84, 111, 32, 115, 101, 101, 32, 115, 99, 104, 101, 109, 101, 115, 32, 105,
       110, 32, 97, 32, 99, 97, 116, 101, 103, 111, 114, 121, 44, 32, 117, 115, 101,
       32, 96, 47, 121, 111, 106, 97, 110, 97, 32, 91, 99, 97, 116, 101, 103, 111, 114,
       121, 95, 110, 97, 109, 101, 93, 96, 46>>

FeesHeader == (* "*Fees:*" *) <<42, 70, 101, 101, 115, 58, 42>>

ProcedureHeader == (* "*Procedure:*" *) <<42, 80, 114, 111, 99, 101, 100, 117, 114, 101, 58, 42>>

DocumentsHeader == (* "*Documents Required:*" *) <<42, 68, 111, 99, 117, 109, 101, 110, 116, 115, 32, 82, 101, 113, 117, 105, 114,
       101, 100, 58, 42>>

LinkHeader == (* "*Official Link:*" *) <<42, 79, 102, 102, 105, 99, 105, 97, 108, 32, 76, 105, 110, 107, 58, 42>>

SevaOnTable == call.op = "seva" /\ services.status = "ok"

YojanaOnTable == call.op = "yojana" /\ schemes.status = "ok" /\ Len(schemes.data) > 0

\* The texts of the non-empty fields of a service record: its name, the
\* types and amounts of a fees mapping, its steps, documents and link.
FieldTexts(r) ==
    {r["name"]}
    \cup (IF "fees" \in DOMAIN r /\ r["fees"].type = "dict"
          THEN UNION { {r["fees"].value[k][1], r["fees"].value[k][2]} :
                           k \in 1..Len(r["fees"].value) }
          ELSE {})
    \cup (IF "procedure" \in DOMAIN r
          THEN { r["procedure"][k] : k \in 1..Len(r["procedure"]) } ELSE {})
    \cup (IF "documents_required" \in DOMAIN r
          THEN { r["documents_required"][k] : k \in 1..Len(r["documents_required"]) }
          ELSE {})
    \cup (IF "official_link" \in DOMAIN r /\ Len(r["official_link"]) > 0
          THEN {r["official_link"]} ELSE {})

RECURSIVE CommaJoined(_)
\* The names separated by ", ", built from the right.
CommaJoined(names) ==
    IF Len(names) = 0 THEN << >>
    ELSE IF Len(names) = 1 THEN names[1]
    ELSE CommaJoined(SubSeq(names, 1, Len(names) - 1)) \o (* ", " *) <<44, 32>> \o names[Len(names)]

\* a sorts strictly before b, comparing code points at the first difference.
LexLess(a, b) ==
    \E k \in 1..Len(b) :
        /\ k - 1 <= Len(a)
        /\ \A j \in 1..(k - 1) : a[j] = b[j]
        /\ (k > Len(a) \/ a[k] < b[k])

\* The enumerations of a finite set without repetition.
Orderings(set) ==
    { f \in [1..Cardinality(set) -> set] :
        \A i, j \in 1..Cardinality(set) : i # j => f[i] # f[j] }

RECURSIVE OneBulletEach(_)
OneBulletEach(cats) ==
    IF Len(cats) = 0 THEN << >>
    ELSE (* "- " *) <<45, 32>> \o Head(cats) \o (* "\n" *) <<10>> \o OneBulletEach(Tail(cats))

\* text is the listing of exactly the categories cats, ascending.
IsCategoryListing(text, cats) ==
    \E order \in Orderings(cats) :
        /\ \A i \in 1..(Len(order) - 1) : LexLess(order[i], order[i + 1])
        /\ text = ListingHeader \o OneBulletEach(order) \o UsageHint

\* The categories written in the table.
PresentCategories(table) ==
    { table[i]["category"] : i \in { k \in 1..Len(table) : "category" \in DOMAIN table[k] } }

\* The same, a record without a category counting as Uncategorized.
LabelledCategories(table) ==
    PresentCategories(table)
    \cup (IF \E i \in 1..Len(table) : "category" \notin DOMAIN table[i]
          THEN {(* "Uncategorized" *) <<85, 110, 99, 97, 116, 101, 103, 111, 114, 105, 122, 101, 100>>} ELSE {})

FieldOrEmpty(r, key) == IF key \in DOMAIN r THEN r[key] ELSE << >>

\* The keyword rule: every lower-cased token of the query is a substring of
\* the lower-cased category + " " + name + " " + description.
KeywordMatch(r, query) ==
    LET hay == str_lower(FieldOrEmpty(r, "category") \o (* " " *) <<32>> \o FieldOrEmpty(r, "name")
                         \o (* " " *) <<32>> \o FieldOrEmpty(r, "description"))
        tokens == str_split(str_lower(query))
    IN  \A t \in 1..Len(tokens) : Contains(hay, tokens[t])

\* The records of the table a keyword query selects, in table order.
KeywordMatches(table, query) ==
    LET Test(r) == KeywordMatch(r, query) IN SelectSeq(table, Test)

HasSchemeFields(r) == {"category", "name", "description"} \subseteq DOMAIN r

(***************************************************************************)
(* Properties                                                              *)
(***************************************************************************)
\* C1: on a services table whose records all carry a name, seva selects the
\* first record, in table order, whose whole name equals service_name up to
\* letter case, and renders that record (the earliest of several with the
\* same name); a name that only contains or extends service_name selects
\* nothing.
C1_FirstExactMatchSelected ==
    (SevaOnTable /\ AllNamed(services.data)) =>
        LET m == MatchingIndexes(services.data, call.arg[1])
        IN  IF m = {}
            THEN service_info = None /\ ~StartsWith(response, GuidePrefix)
            ELSE /\ service_info = <<services.data[Least(m)]>>
                 /\ StartsWith(response,
                               GuidePrefix \o services.data[Least(m)]["name"] \o (* "*\n" *) <<42, 10>>)

\* C1 witness: two different records bear the requested name and the first was chosen.
C1_Witness ==
    /\ SevaOnTable /\ AllNamed(services.data) /\ Len(services.data) = 2
    /\ MatchingIndexes(services.data, call.arg[1]) = {1, 2}
    /\ services.data[1]["name"] # services.data[2]["name"]
    /\ service_info = <<services.data[1]>>

\* C2: for a query with at least one token, on a table whose
\* records all carry category, name and description, yojana returns exactly
\* the records for which every lower-cased token of the query is a substring
\* of the lower-cased category + " " + name + " " + description.
C2_KeywordSearch ==
    (/\ YojanaOnTable /\ ~falsy(call.arg)
     /\ str_split(call.arg[1]) # << >>
     /\ \A i \in 1..Len(schemes.data) : HasSchemeFields(schemes.data[i])) =>
        category_schemes = KeywordMatches(schemes.data, call.arg[1])

\* C3: when the data file of a tool is missing, unparsable or an empty
\* array, the tool's response is not its not-found / no-match response.
C3_NoDataIsNotNotFound ==
    /\ (call.op = "seva" /\ (services.status # "ok" \/ Len(services.data) = 0)) =>
            ~StartsWith(response, NotFoundPrefix)
    /\ (call.op = "yojana" /\ (schemes.status # "ok" \/ Len(schemes.data) = 0)) =>
            ~StartsWith(response, NoMatchPrefix)

\* C4 as stated: without a query, yojana lists exactly the category values
\* present in the table, one bullet each, ascending, then the usage hint.
C4_ListsPresentCategories ==
    (YojanaOnTable /\ falsy(call.arg)) =>
        IsCategoryListing(response, PresentCategories(schemes.data))

\* C4 amended: the same, with every record that has no category counted
\* under the category Uncategorized.
C4_ListsLabelledCategories ==
    (YojanaOnTable /\ falsy(call.arg)) =>
        IsCategoryListing(response, LabelledCategories(schemes.data))

\* C4 witness: two categories stored in descending order were listed.
C4_Witness ==
    /\ YojanaOnTable /\ falsy(call.arg) /\ Len(schemes.data) = 2
    /\ \A i \in 1..2 : "category" \in DOMAIN schemes.data[i]
    /\ LexLess(schemes.data[2]["category"], schemes.data[1]["category"])
    /\ StartsWith(response, ListingHeader)

\* C5 as stated: on a services table whose records all carry a name, for
\* every record R and every letter-casing of R.name, seva returns a guide
\* containing R.name and every non-empty field of R.
C5_EveryRecordResolves ==
    (SevaOnTable /\ AllNamed(services.data)) =>
        \A i \in MatchingIndexes(services.data, call.arg[1]) :
            /\ StartsWith(response, GuidePrefix)
            /\ \A t \in FieldTexts(services.data[i]) : Contains(response, t)

\* C5 amended: the same for every record R that only records with a name
\* different from R.name (up to letter case) precede in the table.
C5_FirstOfItsNameResolves ==
    SevaOnTable =>
        \A i \in MatchingIndexes(services.data, call.arg[1]) :
            (\A j \in 1..(i - 1) :
                 /\ HasName(services.data[j])
                 /\ ~EqIgnoreCase(services.data[j]["name"], call.arg[1])) =>
                /\ StartsWith(response, GuidePrefix)
                /\ \A t \in FieldTexts(services.data[i]) : Contains(response, t)

\* C5 witness: a record with fees, steps, documents and a link was asked for in another
\* letter-casing than its name's.
C5_Witness ==
    /\ SevaOnTable /\ service_info # None
    /\ service_info[1]["name"] # call.arg[1]
    /\ {"fees", "procedure", "documents_required", "official_link"}
           \subseteq DOMAIN service_info[1]
    /\ service_info[1]["fees"].type = "dict" /\ Len(service_info[1]["fees"].value) > 0
    /\ Len(service_info[1]["documents_required"]) > 0

\* C6: a guide holds the header of a section only if the record has that
\* field and the field is not empty.
C6_NoEmptySection ==
    (call.op = "seva" /\ service_info # None) =>
        LET r == service_info[1]
            Filled(key) == key \in DOMAIN r /\ Len(r[key]) > 0
        IN  /\ Contains(response, FeesHeader) =>
                   ("fees" \in DOMAIN r /\ Len(r["fees"].value) > 0)
            /\ Contains(response, ProcedureHeader) => Filled("procedure")
            /\ Contains(response, DocumentsHeader) => Filled("documents_required")
            /\ Contains(response, LinkHeader) => Filled("official_link")

\* C7: on a services table whose records all carry a name, when no record
\* matches service_name seva returns the not-found message for that name,
\* ending with the names of all records, comma-joined in table order.
C7_NotFoundListsAllNames ==
    (/\ SevaOnTable /\ AllNamed(services.data)
     /\ MatchingIndexes(services.data, call.arg[1]) = {}) =>
        /\ StartsWith(response, NotFoundPrefix \o call.arg[1] \o (* ". " *) <<46, 32>>)
        /\ EndsWith(response,
                    (* ": " *) <<58, 32>> \o CommaJoined([i \in 1..Len(services.data) |->
                                              services.data[i]["name"]]) \o (* "." *) <<46>>)

\* C7 witness: two records with different names, neither the one asked for.
C7_Witness ==
    /\ SevaOnTable /\ AllNamed(services.data) /\ Len(services.data) = 2
    /\ MatchingIndexes(services.data, call.arg[1]) = {}
    /\ services.data[1]["name"] # services.data[2]["name"]
    /\ StartsWith(response, NotFoundPrefix)

\* C8: when a non-empty query matches no record of a non-empty scheme
\* table, the response contains the query.
C8_NoMatchNamesQuery ==
    (YojanaOnTable /\ ~falsy(call.arg) /\ category_schemes = << >>) =>
        Contains(response, call.arg[1])

\* C9: a record without a name does not stop seva: a query naming a record
\* gets that record's guide, and a query naming none gets the not-found
\* message.
C9_NamelessRecordSkipped ==
    (SevaOnTable /\ ~AllNamed(services.data)) =>
        LET m == MatchingIndexes(services.data, call.arg[1])
        IN  IF m = {}
            THEN StartsWith(response, NotFoundPrefix)
            ELSE StartsWith(response,
                            GuidePrefix \o services.data[Least(m)]["name"] \o (* "*\n" *) <<42, 10>>)

\* C10: every matching scheme is rendered with its name, its description,
\* its category and, when present, its official link, each value unaltered.
C10_MatchesRenderedUnaltered ==
    (call.op = "yojana" /\ category_schemes # << >>) =>
        \A i \in 1..Len(category_schemes) :
            \A key \in {"name", "description", "category", "official_link"}
                           \cap DOMAIN category_schemes[i] :
                Contains(response, category_schemes[i][key])

====
